---------------------------- MODULE Spec2Model ----------------------------
(***************************************************************************)
(* Dance trainer UI: the practice page (EnhancedPracticePage), its         *)
(* countdown, the snapshot path (LiveCameraView -> handleSnapshot ->       *)
(* comparison collaborator) and the feedback state it drives.              *)
(*                                                                         *)
(* The page is a React function component.  One action of the model is one *)
(* event handler or callback run to completion, together with the render   *)
(* and the effect run that React performs for the state it changed.        *)
(* A state setter called with the value the state already holds is a       *)
(* bail-out: no render, no effect run.  A state setter of an unmounted     *)
(* component changes nothing.                                              *)
(*                                                                         *)
(* Beside the page: LiveFeedback (the timed message list), the beat clock  *)
(* (useVideoBeatSync), App's backend connection check, the DanceAPI        *)
(* client, useDanceSession and CalibrationPage.  Each is specified on its  *)
(* own (SpecFeedback, SpecBeat, SpecApp, SpecSession, SpecCalibration)     *)
(* over the same variables; PracticePage has the countdown of the enhanced *)
(* page without the startAutoCapture call.                                 *)
(***************************************************************************)
EXTENDS Integers, FiniteSets, Sequences

VARIABLES
    \* EnhancedPracticePage state (useState)
    countdown,            \* number | null
    hasStarted,
    isPlaying,
    currentFeedback,      \* MockFeedbackResponse | null
    overallAccuracy,
    videoCurrentTime,
    \* timers owned by the countdown effect
    countdownTimer,       \* the pending one-second timer, by the countdown it captured
    startTimers,          \* number of pending 500 ms start-delay timers
    \* view
    mounted,              \* the page is in the tree
    startOverlay,         \* "shown" | "exiting" | "gone": the Start button overlay
    \* snapshot scheduler (useSnapshotCapture / LiveCameraView) and session phase
    isCapturing,
    onSnapshotPending,    \* onSnapshot calls whose promise has not settled
    ended,                \* the parent moved the session to Ended
    \* comparison collaborator
    inflight,             \* requests submitted and not yet answered
    submitted,            \* number of requests ever submitted
    failed,               \* number of requests answered with a failure
    lastProcessed,        \* the result the collaborator delivered last, or null
    \* observations
    consoleErrors,        \* console.error calls of handleSnapshot
    startCalls,           \* handleStart invocations
    startAutoCaptureCalls,
    \* LiveFeedback state (useState) and its timers
    feedbackMessages,     \* sequence of {id, message}
    messageId,
    intervalLeft,         \* seconds until the insertion interval fires, or Null
    expiryTimers,         \* pending removal timers: {id, left (seconds)}
    feedbackMounted,
    \* beat clock (useVideoBeatSync): its inputs and the state it returns
    bpm,
    totalBeats,
    elapsedTime,          \* video time in quarter seconds
    beatState,
    \* App (backend connection check)
    apiStatus,
    checksPending,        \* number of checkBackend calls awaiting their fetch
    checkedStatus,        \* HTTP status of the check that completed last
    \* DanceAPI
    apiPending,           \* the methods with a request awaiting its response
    apiResult,            \* how the request that settled last ended
    \* LiveCameraView
    earlySnapshots,       \* onSnapshot calls made before the session started
    \* useDanceSession
    sessionId,            \* string | null
    isSessionActive,
    sessionPending,       \* startSession / endSession calls awaiting their response
    sessionSeq,           \* number of session calls issued
    lastEndSettled,       \* issue number of the latest endSession that succeeded
    sessionFailed,        \* session calls that failed, by kind
    sessionErrors,        \* console.error calls of the hook
    sessionRejected,      \* errors rethrown to the caller
    \* CalibrationPage
    isCalibrating,
    isComplete,
    checklist,            \* item id -> completed
    calibrationTimers,    \* page instance -> its pending 2000 ms timers
    calibrationPage,      \* the page instance in the tree, or Null
    calibrationVisits,    \* page instances created so far
    onCompleteCalls

pageVars  == <<countdown, hasStarted, isPlaying, currentFeedback, overallAccuracy,
               videoCurrentTime>>
timerVars == <<countdownTimer, startTimers>>
viewVars  == <<mounted, startOverlay>>
schedVars == <<isCapturing, onSnapshotPending, ended>>
collabVars == <<inflight, submitted, failed, lastProcessed>>
obsVars   == <<consoleErrors, startCalls, startAutoCaptureCalls>>

feedbackVars == <<feedbackMessages, messageId, intervalLeft, expiryTimers,
                  feedbackMounted>>

beatVars == <<bpm, totalBeats, elapsedTime, beatState>>

appVars == <<apiStatus, checksPending, checkedStatus, apiPending, apiResult>>

cameraVars == <<earlySnapshots>>

sessionVars == <<sessionId, isSessionActive, sessionPending, sessionSeq,
                 lastEndSettled, sessionFailed, sessionErrors, sessionRejected>>

calibrationVars == <<isCalibrating, isComplete, checklist, calibrationTimers,
                     calibrationPage, calibrationVisits, onCompleteCalls>>

\* the components beside the practice page and LiveFeedback
restVars == <<beatVars, appVars, cameraVars, sessionVars, calibrationVars>>

nonPageVars == <<feedbackVars, restVars>>

vars == <<pageVars, timerVars, viewVars, schedVars, collabVars, obsVars,
          feedbackVars, restVars>>

---------------------------------------------------------------------------
(* Bounds of the model *)

MaxRequests == 3
MaxStartTimers == 2
MaxStartCalls == 2
MaxVideoTime == 1
MaxMessageId == 3
MaxElapsedTime == 40
MaxChecksPending == 2
MaxApiPending == 2
MaxEarlySnapshots == 2
MaxSessionCalls == 3
MaxCalibrationVisits == 3
MaxCompleteCalls == 2

---------------------------------------------------------------------------
(* Program constants *)

\* countdown === null
Null == -1
\* handleStart: setCountdown(3)
StartCount == 3
\* useState(82)
InitialAccuracy == 82

\* live_feedback: string | null
NullText == "<null>"
Texts == {NullText, "", "Keep your arms higher"}

\* combined_score in thousandths: 0.0, 0.495, 1.0
Scores == {0, 495, 1000}

\* currentFeedback === null
NullFeedback ==
    [present |-> FALSE, comparison |-> FALSE, combined_score |-> 0,
     live_feedback |-> NullText]

\* MockFeedbackResponse / ProcessSnapshotResponse, the fields the page reads
Feedbacks ==
    {[present |-> TRUE, comparison |-> TRUE, combined_score |-> s, live_feedback |-> t] :
        s \in Scores, t \in Texts}
    \cup
    {[present |-> TRUE, comparison |-> FALSE, combined_score |-> 0, live_feedback |-> t] :
        t \in Texts}

\* What the collaborator answers: an HTTP status with a body; status 0 is a
\* call that rejects without a response
Replies ==
    {[status |-> 200, body |-> f] : f \in Feedbacks}
    \cup {[status |-> 500, body |-> NullFeedback], [status |-> 0, body |-> NullFeedback]}

\* DanceAPI.request: if (!response.ok) throw
Rejects(reply) == ~(reply.status \in 200..299)

\* Variant: the score scaled by 1000 instead of 100
Round100Permille(score) == score

\* Math.round(combined_score * 100), combined_score in thousandths
Round100(score) == (score + 5) \div 10

---------------------------------------------------------------------------
(* The countdown effect: useEffect(..., [countdown, startAutoCapture])     *)

\* The one-second timer pending after the effect's cleanup and body ran
\* for countdown c: cleanup clears the previous one-second timer; the body
\* arms a new one only for c > 0
EffectTimer(c) == IF c \in 1..StartCount THEN c ELSE Null

\* Variant: the start branch taken one count early (countdown <= 1)
EffectStartEarly(c, n) == IF c \in 0..1 THEN n + 1 ELSE n

\* Variant: the c === 0 branch returns without arming the start delay
EffectStartNever(c, n) == n

\* The start-delay timers pending after the effect ran for countdown c with
\* n pending before: the c === 0 branch arms one and returns no cleanup
EffectStart(c, n) == IF c = 0 THEN n + 1 ELSE n

\* The one-second timer's callback: setCountdown(countdown - 1)
CountdownDecrement(c) == c - 1

\* The Start overlay is rendered while !hasStarted && countdown === null;
\* AnimatePresence keeps it in the tree, clickable, while it animates out
OverlayAfter(c, started) ==
    IF ~started /\ c = Null THEN "shown"
    ELSE IF startOverlay = "shown" THEN "exiting"
    ELSE startOverlay

\* Variant: handleStart written as a reset of the whole session
HandleStartRestarting ==
    /\ UNCHANGED nonPageVars
    /\ mounted
    /\ startOverlay \in {"shown", "exiting"}
    /\ startCalls < MaxStartCalls
    /\ countdown' = StartCount
    /\ hasStarted' = FALSE
    /\ isPlaying' = FALSE
    /\ IF countdown = StartCount
         THEN UNCHANGED timerVars
         ELSE /\ countdownTimer' = EffectTimer(StartCount)
              /\ startTimers' = EffectStart(StartCount, startTimers)
    /\ startOverlay' = OverlayAfter(StartCount, FALSE)
    /\ startCalls' = startCalls + 1
    /\ UNCHANGED <<currentFeedback, overallAccuracy,
                   videoCurrentTime, mounted, schedVars, collabVars,
                   consoleErrors, startAutoCaptureCalls>>

\* Start button: onClick={handleStart}; handleStart: setCountdown(3)
HandleStart ==
    /\ UNCHANGED nonPageVars
    /\ mounted
    /\ startOverlay \in {"shown", "exiting"}
    /\ startCalls < MaxStartCalls
    /\ countdown' = StartCount
    /\ IF countdown = StartCount
         THEN UNCHANGED timerVars
         ELSE /\ countdownTimer' = EffectTimer(StartCount)
              /\ startTimers' = EffectStart(StartCount, startTimers)
    /\ startOverlay' = OverlayAfter(StartCount, hasStarted)
    /\ startCalls' = startCalls + 1
    /\ UNCHANGED <<hasStarted, isPlaying, currentFeedback, overallAccuracy,
                   videoCurrentTime, mounted, schedVars, collabVars,
                   consoleErrors, startAutoCaptureCalls>>

\* The one-second timer expires.  The overlay's exit animation (no
\* transition given: the library default, well under a second) ends before
\* the 1000 ms timer set in the same commit
CountdownTimerFires ==
    /\ UNCHANGED nonPageVars
    /\ countdownTimer # Null
    /\ startOverlay # "exiting"
    /\ countdown' = CountdownDecrement(countdownTimer)
    /\ countdownTimer' = EffectTimer(countdown')
    /\ startTimers' = EffectStart(countdown', startTimers)
    /\ startOverlay' = OverlayAfter(countdown', hasStarted)
    /\ UNCHANGED <<hasStarted, isPlaying, currentFeedback, overallAccuracy,
                   videoCurrentTime, mounted, schedVars, collabVars, obsVars>>

\* A 500 ms start-delay timer expires: setCountdown(null);
\* setHasStarted(true); setIsPlaying(true); startAutoCapture()
StartDelayFires ==
    /\ UNCHANGED nonPageVars
    /\ startTimers > 0
    /\ startTimers' = startTimers - 1
    /\ startAutoCaptureCalls' = startAutoCaptureCalls + 1
    /\ IF mounted
         THEN /\ countdown' = Null
              /\ hasStarted' = TRUE
              /\ isPlaying' = TRUE
              /\ isCapturing' = TRUE
              /\ countdownTimer' =
                     IF countdown = Null THEN countdownTimer ELSE EffectTimer(Null)
              /\ startOverlay' = OverlayAfter(Null, TRUE)
         ELSE UNCHANGED <<countdown, hasStarted, isPlaying, isCapturing,
                          countdownTimer, startOverlay>>
    /\ UNCHANGED <<currentFeedback, overallAccuracy, videoCurrentTime, mounted,
                   onSnapshotPending, ended, collabVars, consoleErrors, startCalls>>

\* A render in which startAutoCapture has a new identity: the effect's
\* cleanup and body run again for the same countdown
EffectRerun ==
    /\ UNCHANGED nonPageVars
    /\ mounted
    /\ countdown # Null
    /\ EffectStart(countdown, startTimers) <= MaxStartTimers
    /\ countdownTimer' = EffectTimer(countdown)
    /\ startTimers' = EffectStart(countdown, startTimers)
    /\ UNCHANGED <<pageVars, viewVars, schedVars, collabVars, obsVars>>

\* The Start overlay's exit animation ends
OverlayExitComplete ==
    /\ UNCHANGED nonPageVars
    /\ startOverlay = "exiting"
    /\ startOverlay' = "gone"
    /\ UNCHANGED <<pageVars, timerVars, mounted, schedVars, collabVars, obsVars>>

---------------------------------------------------------------------------
(* Playback controls (VideoPlayer and PracticeControlBar props)            *)

\* LiveCameraView's prop autoSnapshot={hasStarted && isCapturing}
autoSnapshot == hasStarted /\ isCapturing

\* Variant: the play control also starts the session
PlayPauseStarts ==
    /\ UNCHANGED nonPageVars
    /\ mounted
    /\ isPlaying' = ~isPlaying
    /\ hasStarted' = TRUE
    /\ UNCHANGED <<countdown, currentFeedback, overallAccuracy,
                   videoCurrentTime, timerVars, viewVars, schedVars, collabVars,
                   obsVars>>

\* onPlayPause={() => setIsPlaying(!isPlaying)}
PlayPause ==
    /\ UNCHANGED nonPageVars
    /\ mounted
    /\ isPlaying' = ~isPlaying
    /\ UNCHANGED <<countdown, hasStarted, currentFeedback, overallAccuracy,
                   videoCurrentTime, timerVars, viewVars, schedVars, collabVars,
                   obsVars>>

\* onRestart={() => { setVideoCurrentTime(0); setIsPlaying(true); }}
Restart ==
    /\ UNCHANGED nonPageVars
    /\ mounted
    /\ videoCurrentTime' = 0
    /\ isPlaying' = TRUE
    /\ UNCHANGED <<countdown, hasStarted, currentFeedback, overallAccuracy,
                   timerVars, viewVars, schedVars, collabVars, obsVars>>

\* onTimeUpdate={setVideoCurrentTime}: the playing video reports its time
TimeUpdate ==
    /\ UNCHANGED nonPageVars
    /\ mounted
    /\ isPlaying
    /\ videoCurrentTime < MaxVideoTime
    /\ videoCurrentTime' = videoCurrentTime + 1
    /\ UNCHANGED <<countdown, hasStarted, isPlaying, currentFeedback,
                   overallAccuracy, timerVars, viewVars, schedVars, collabVars,
                   obsVars>>

---------------------------------------------------------------------------
(* The snapshot path                                                       *)

\* Variant: the call to the collaborator is not awaited, so the promise
\* handleSnapshot returns settles at once
HandleSnapshotNoAwait(id) ==
    IF ~hasStarted
      THEN UNCHANGED <<inflight, submitted, onSnapshotPending>>
      ELSE /\ inflight' = inflight \cup {id}
           /\ submitted' = id
           /\ UNCHANGED onSnapshotPending

\* Variant: handleSnapshot without its hasStarted guard
HandleSnapshotUnguarded(id) ==
    /\ inflight' = inflight \cup {id}
    /\ submitted' = id
    /\ onSnapshotPending' = onSnapshotPending \cup {id}

\* handleSnapshot up to its await: if (!hasStarted) return; otherwise the
\* snapshot is submitted and the promise handleSnapshot returned stays
\* pending until the collaborator answers
HandleSnapshot(id) ==
    IF ~hasStarted
      THEN UNCHANGED <<inflight, submitted, onSnapshotPending>>
      ELSE /\ inflight' = inflight \cup {id}
           /\ submitted' = id
           /\ onSnapshotPending' = onSnapshotPending \cup {id}

\* LiveCameraView hands a frame to onSnapshot while autoSnapshot is still
\* false, before the session started
SnapshotBeforeStart ==
    /\ UNCHANGED <<feedbackVars, beatVars, appVars, sessionVars, calibrationVars>>
    /\ mounted
    /\ ~hasStarted
    /\ onSnapshotPending = {}
    /\ earlySnapshots < MaxEarlySnapshots
    /\ submitted < MaxRequests
    /\ earlySnapshots' = earlySnapshots + 1
    /\ HandleSnapshot(submitted + 1)
    /\ UNCHANGED <<pageVars, timerVars, viewVars, isCapturing, ended, failed, lastProcessed,
                   obsVars>>

\* LiveCameraView's interval, autoSnapshot={hasStarted && isCapturing}:
\* a tick that finds the previous onSnapshot call still pending is skipped
SnapshotTick ==
    /\ UNCHANGED nonPageVars
    /\ mounted
    /\ hasStarted /\ isCapturing
    /\ onSnapshotPending = {}
    /\ submitted < MaxRequests
    /\ HandleSnapshot(submitted + 1)
    /\ UNCHANGED <<pageVars, timerVars, viewVars, isCapturing, ended, failed, lastProcessed,
                   obsVars>>

\* Variant: the accuracy smoothed with the previous value
NewAccuracyAveraged(old, feedback) ==
    IF feedback.comparison
      THEN (old + Round100(feedback.combined_score)) \div 2
      ELSE old

\* setOverallAccuracy(Math.round(feedback.comparison_result.combined_score * 100))
NewAccuracy(old, feedback) ==
    IF feedback.comparison THEN Round100(feedback.combined_score) ELSE old

\* currentTip: currentFeedback?.live_feedback ? {...} : undefined (null and
\* the empty string are falsy)
CurrentTipShown ==
    /\ currentFeedback.present
    /\ currentFeedback.live_feedback # NullText
    /\ currentFeedback.live_feedback # ""

\* Variant: setCurrentFeedback moved inside the comparison_result test
HandleSnapshotApplySkipsNull(id, feedback) ==
    /\ UNCHANGED nonPageVars
    /\ inflight' = inflight \ {id}
    /\ onSnapshotPending' = onSnapshotPending \ {id}
    /\ IF mounted /\ feedback.comparison
         THEN /\ currentFeedback' = feedback
              /\ overallAccuracy' = NewAccuracy(overallAccuracy, feedback)
         ELSE UNCHANGED <<currentFeedback, overallAccuracy>>
    /\ UNCHANGED <<countdown, hasStarted, isPlaying, videoCurrentTime, timerVars,
                   viewVars, isCapturing, ended, submitted, obsVars>>

\* handleSnapshot after its await, the call resolved with feedback:
\* setCurrentFeedback(feedback); if (feedback.comparison_result)
\* setOverallAccuracy(...)
HandleSnapshotApply(id, feedback) ==
    /\ UNCHANGED nonPageVars
    /\ inflight' = inflight \ {id}
    /\ onSnapshotPending' = onSnapshotPending \ {id}
    /\ IF mounted
         THEN /\ currentFeedback' = feedback
              /\ overallAccuracy' = NewAccuracy(overallAccuracy, feedback)
         ELSE UNCHANGED <<currentFeedback, overallAccuracy>>
    /\ UNCHANGED <<countdown, hasStarted, isPlaying, videoCurrentTime, timerVars,
                   viewVars, isCapturing, ended, submitted, obsVars>>

\* Variant: the catch also clears the feedback and pauses playback
HandleSnapshotCatchResets(id) ==
    /\ UNCHANGED nonPageVars
    /\ inflight' = inflight \ {id}
    /\ onSnapshotPending' = onSnapshotPending \ {id}
    /\ consoleErrors' = consoleErrors + 1
    /\ currentFeedback' = NullFeedback
    /\ isPlaying' = FALSE
    /\ UNCHANGED <<countdown, hasStarted, overallAccuracy, videoCurrentTime,
                   timerVars, viewVars, isCapturing, ended, submitted,
                   startCalls, startAutoCaptureCalls>>

\* Variant: the catch submits the same snapshot again
HandleSnapshotCatchRetries(id) ==
    /\ UNCHANGED nonPageVars
    /\ consoleErrors' = consoleErrors + 1
    /\ UNCHANGED <<inflight, onSnapshotPending>>
    /\ UNCHANGED <<pageVars, timerVars, viewVars, isCapturing, ended, submitted,
                   startCalls, startAutoCaptureCalls>>

\* handleSnapshot's catch: console.error('Error processing snapshot:', error)
HandleSnapshotCatch(id) ==
    /\ UNCHANGED nonPageVars
    /\ inflight' = inflight \ {id}
    /\ onSnapshotPending' = onSnapshotPending \ {id}
    /\ consoleErrors' = consoleErrors + 1
    /\ UNCHANGED <<pageVars, timerVars, viewVars, isCapturing, ended, submitted,
                   startCalls, startAutoCaptureCalls>>

\* The collaborator answers an outstanding request
SnapshotResponse ==
    \E id \in inflight, reply \in Replies :
        IF Rejects(reply)
          THEN /\ HandleSnapshotCatch(id)
               /\ failed' = failed + 1
               /\ UNCHANGED lastProcessed
          ELSE /\ HandleSnapshotApply(id, reply.body)
               /\ UNCHANGED failed
               /\ lastProcessed' = reply.body

---------------------------------------------------------------------------
(* Session end and teardown                                                *)

\* Skip to Summary, rendered while hasStarted: onClick={onReview}.  The
\* parent moves the session to Ended and signals the scheduler to stop
OnReview ==
    /\ UNCHANGED nonPageVars
    /\ mounted
    /\ hasStarted
    /\ ~ended
    /\ ended' = TRUE
    /\ isCapturing' = FALSE
    /\ UNCHANGED <<pageVars, timerVars, viewVars, onSnapshotPending, collabVars,
                   obsVars>>

\* The page leaves the tree: the countdown effect's cleanup clears the
\* one-second timer; the scheduler's interval is cancelled
Unmount ==
    /\ UNCHANGED nonPageVars
    /\ mounted
    /\ mounted' = FALSE
    /\ startOverlay' = "gone"
    /\ countdownTimer' = Null
    /\ isCapturing' = FALSE
    /\ UNCHANGED <<pageVars, startTimers, onSnapshotPending, ended, collabVars,
                   obsVars>>

---------------------------------------------------------------------------
(* The beat clock (useVideoBeatSync): a pure function of the video time,   *)
(* the tempo and the number of beats of the routine.  Time is counted in   *)
(* quarter seconds, so elapsedBeats = elapsedTime * bpm / 240 and a beat   *)
(* fraction is a number of 240ths.                                         *)

\* elapsedBeats = elapsedTime_seconds * bpm / 60, in quarter seconds
QuartersPerMinute == 240

\* the tempos and beat totals a routine is configured with
Bpms == {-60, 0, 60, 90, 120}
BeatTotals == {-1, 0, 1, 8, 32}

\* useVideoBeatSync({bpm: routine.bpm, totalBeats, ...}) of the page's routine
RoutineBpm == 120
RoutineBeats == 32

\* the configuration error a beat computation reports instead of a state
ConfigurationError ==
    [error |-> TRUE, currentBeat |-> Null, beatProgress |-> Null]

\* elapsedBeats in 240ths of a beat
ElapsedBeats(t, b) == t * b

\* Variant: the beat index is not clamped to the last beat
BeatClockUnclamped(t, b, n) ==
    IF b <= 0 \/ n <= 0 THEN ConfigurationError
    ELSE [error |-> FALSE,
          currentBeat |-> ElapsedBeats(t, b) \div QuartersPerMinute,
          beatProgress |-> ElapsedBeats(t, b) % QuartersPerMinute]

\* Variant: the beat index is rounded to the nearest beat
BeatClockRounded(t, b, n) ==
    IF b <= 0 \/ n <= 0 THEN ConfigurationError
    ELSE LET whole == (2 * ElapsedBeats(t, b) + QuartersPerMinute)
                          \div (2 * QuartersPerMinute)
         IN  [error |-> FALSE,
              currentBeat |-> IF whole > n - 1 THEN n - 1 ELSE whole,
              beatProgress |-> ElapsedBeats(t, b) % QuartersPerMinute]

\* Variant: an invalid tempo or beat total is replaced by the routine default
BeatClockDefaulting(t, b, n) ==
    LET tempo == IF b <= 0 THEN RoutineBpm ELSE b
        beats == IF n <= 0 THEN RoutineBeats ELSE n
        whole == ElapsedBeats(t, tempo) \div QuartersPerMinute
    IN  [error |-> FALSE,
         currentBeat |-> IF whole > beats - 1 THEN beats - 1 ELSE whole,
         beatProgress |-> ElapsedBeats(t, tempo) % QuartersPerMinute]

\* BeatClock(elapsedTime, bpm, totalBeats): currentBeat = floor(elapsedBeats)
\* clamped to totalBeats - 1, beatProgress = the fractional remainder;
\* bpm <= 0 or totalBeats <= 0 is a configuration error
BeatClock(t, b, n) ==
    IF b <= 0 \/ n <= 0 THEN ConfigurationError
    ELSE LET whole == ElapsedBeats(t, b) \div QuartersPerMinute
         IN  [error |-> FALSE,
              currentBeat |-> IF whole > n - 1 THEN n - 1 ELSE whole,
              beatProgress |-> ElapsedBeats(t, b) % QuartersPerMinute]

\* The video reports a new time: the hook recomputes the beat state
BeatTimeUpdate ==
    /\ \E t \in 0..MaxElapsedTime :
          /\ t # elapsedTime
          /\ elapsedTime' = t
          /\ beatState' = BeatClock(t, bpm, totalBeats)
    /\ UNCHANGED <<bpm, totalBeats>>
    /\ UNCHANGED <<pageVars, timerVars, viewVars, schedVars, collabVars, obsVars,
                   feedbackVars, cameraVars, sessionVars,
                   calibrationVars, appVars>>

---------------------------------------------------------------------------
(* The backend: App's connection check and the DanceAPI client             *)

\* no request has settled yet; also the status of a fetch that rejects
\* (no response at all)
NoStatus == 0

\* What the backend answers a request: no response (status NoStatus), or an
\* HTTP status with a body that parses as JSON or does not; message is
\* data.message of a JSON body ("undefined" when the body has no such field)
HttpReplies ==
    {[status |-> NoStatus, json |-> FALSE, message |-> "undefined"]}
    \cup
    {[status |-> st, json |-> j, message |-> IF j THEN m ELSE "undefined"] :
        st \in {200, 404, 500, 503}, j \in BOOLEAN,
        m \in {"undefined", "K-Pop Dance Trainer API"}}

\* `Connected - ${data.message}`
Connected(message) == "Connected - " \o message

\* checkBackend: await fetch(url); await response.json();
\* setApiStatus(`Connected - ${data.message}`); catch: 'Backend not running'
CheckBackendStatus(reply) ==
    IF reply.status = NoStatus \/ ~reply.json
      THEN "Backend not running"
      ELSE Connected(reply.message)

\* <button onClick={checkBackend}>: the fetch is issued
CheckBackend ==
    /\ checksPending < MaxChecksPending
    /\ checksPending' = checksPending + 1
    /\ UNCHANGED <<apiStatus, checkedStatus, apiPending, apiResult>>
    /\ UNCHANGED <<pageVars, timerVars, viewVars, schedVars, collabVars, obsVars,
                   feedbackVars, cameraVars, sessionVars,
                   calibrationVars, beatVars>>

\* The fetch of a pending checkBackend settles and the handler runs on
CheckBackendSettles ==
    /\ checksPending > 0
    /\ \E reply \in HttpReplies :
          /\ apiStatus' = CheckBackendStatus(reply)
          /\ checkedStatus' = reply.status
    /\ checksPending' = checksPending - 1
    /\ UNCHANGED <<apiPending, apiResult>>
    /\ UNCHANGED <<pageVars, timerVars, viewVars, schedVars, collabVars, obsVars,
                   feedbackVars, cameraVars, sessionVars,
                   calibrationVars, beatVars>>

\* the methods of DanceAPI, each a call of request()
ApiMethods ==
    {"processSnapshot", "startSession", "endSession", "loadReferenceVideo",
     "updateConfig", "getConfig", "getSessionStatus", "testConnection",
     "getCurrentReference"}

\* DanceAPI.request: if (!response.ok) throw; return response.json()
Request(reply) ==
    [status |-> reply.status,
     delivered |-> ~Rejects(reply) /\ reply.json]

\* A DanceAPI method is called: request() awaits fetch
ApiCall ==
    /\ Cardinality(apiPending) < MaxApiPending
    /\ \E method \in ApiMethods \ apiPending :
          apiPending' = apiPending \cup {method}
    /\ UNCHANGED <<apiStatus, checksPending, checkedStatus, apiResult>>
    /\ UNCHANGED <<pageVars, timerVars, viewVars, schedVars, collabVars, obsVars,
                   feedbackVars, cameraVars, sessionVars,
                   calibrationVars, beatVars>>

\* The fetch of a pending request settles: the promise resolves with the
\* body or rejects
ApiSettles ==
    /\ \E method \in apiPending, reply \in HttpReplies :
          /\ apiPending' = apiPending \ {method}
          /\ apiResult' = Request(reply)
    /\ UNCHANGED <<apiStatus, checksPending, checkedStatus>>
    /\ UNCHANGED <<pageVars, timerVars, viewVars, schedVars, collabVars, obsVars,
                   feedbackVars, cameraVars, sessionVars,
                   calibrationVars, beatVars>>

NextApp ==
    \/ CheckBackend
    \/ CheckBackendSettles
    \/ ApiCall
    \/ ApiSettles

---------------------------------------------------------------------------
(* useDanceSession: the session id and the active flag, set by the        *)
(* continuations of startDanceSession and endDanceSession.  Both setters   *)
(* of a continuation run in one handler, so one action applies both.       *)

\* sessionId === null
NullSession == "null"

\* response.session_id
SessionIds == {"session-1", "session-2"}

\* startDanceSession after its await: setSessionId(response.session_id);
\* setIsSessionActive(true)
StartSessionApply(sid) ==
    /\ sessionId' = sid
    /\ isSessionActive' = TRUE
    /\ UNCHANGED <<sessionErrors, sessionRejected>>

\* Variant: endDanceSession clears the flag and keeps the id
EndSessionApplyKeepsId ==
    /\ isSessionActive' = FALSE
    /\ UNCHANGED <<sessionId, sessionErrors, sessionRejected>>

\* endDanceSession after its await: setSessionId(null);
\* setIsSessionActive(false)
EndSessionApply ==
    /\ sessionId' = NullSession
    /\ isSessionActive' = FALSE
    /\ UNCHANGED <<sessionErrors, sessionRejected>>

\* Variant: the catch block drops the session
SessionCatchResets ==
    /\ sessionId' = NullSession
    /\ isSessionActive' = FALSE
    /\ sessionErrors' = sessionErrors + 1
    /\ sessionRejected' = sessionRejected + 1

\* catch (error) { console.error(...); throw error; }
SessionCatch ==
    /\ sessionErrors' = sessionErrors + 1
    /\ sessionRejected' = sessionRejected + 1
    /\ UNCHANGED <<sessionId, isSessionActive>>

\* startDanceSession up to await danceAPI.startSession()
StartDanceSession ==
    /\ sessionSeq < MaxSessionCalls
    /\ sessionSeq' = sessionSeq + 1
    /\ sessionPending' = sessionPending \cup {[seq |-> sessionSeq + 1, kind |-> "start"]}
    /\ UNCHANGED <<sessionId, isSessionActive, lastEndSettled, sessionFailed,
                   sessionErrors, sessionRejected>>
    /\ UNCHANGED <<pageVars, timerVars, viewVars, schedVars, collabVars, obsVars,
                   feedbackVars, cameraVars, beatVars, appVars, calibrationVars>>

\* endDanceSession up to await danceAPI.endSession()
EndDanceSession ==
    /\ sessionSeq < MaxSessionCalls
    /\ sessionSeq' = sessionSeq + 1
    /\ sessionPending' = sessionPending \cup {[seq |-> sessionSeq + 1, kind |-> "end"]}
    /\ UNCHANGED <<sessionId, isSessionActive, lastEndSettled, sessionFailed,
                   sessionErrors, sessionRejected>>
    /\ UNCHANGED <<pageVars, timerVars, viewVars, schedVars, collabVars, obsVars,
                   feedbackVars, cameraVars, beatVars, appVars, calibrationVars>>

\* The request of a pending session call settles, in any order, and the
\* call's continuation or its catch block runs
SessionSettles ==
    /\ \E call \in sessionPending, reply \in HttpReplies, sid \in SessionIds :
          /\ sessionPending' = sessionPending \ {call}
          /\ IF Request(reply).delivered
               THEN /\ IF call.kind = "start"
                         THEN StartSessionApply(sid)
                         ELSE EndSessionApply
                    /\ lastEndSettled' =
                          IF call.kind = "end" /\ call.seq > lastEndSettled
                            THEN call.seq ELSE lastEndSettled
                    /\ UNCHANGED sessionFailed
               ELSE /\ SessionCatch
                    /\ sessionFailed' =
                          [sessionFailed EXCEPT ![call.kind] = @ + 1]
                    /\ UNCHANGED lastEndSettled
    /\ UNCHANGED sessionSeq
    /\ UNCHANGED <<pageVars, timerVars, viewVars, schedVars, collabVars, obsVars,
                   feedbackVars, cameraVars, beatVars, appVars, calibrationVars>>

NextSession ==
    \/ StartDanceSession
    \/ EndDanceSession
    \/ SessionSettles

---------------------------------------------------------------------------
(* CalibrationPage: the Start Calibration button, its 2000 ms timer and    *)
(* the Begin Practice button.  A page instance that left the tree keeps    *)
(* its pending timer; the timer's setters then change nothing.             *)

\* checklistItems: ids 1..4
ChecklistCount == 4
ChecklistItems == 1..ChecklistCount

\* Variant: the Start Calibration button is not disabled while calibrating
HandleCalibrateEnabled ==
    /\ calibrationPage # Null
    /\ ~isComplete
    /\ isCalibrating' = TRUE
    /\ calibrationTimers' = [calibrationTimers EXCEPT ![calibrationPage] = @ + 1]
    /\ UNCHANGED <<isComplete, checklist, calibrationPage, calibrationVisits,
                   onCompleteCalls>>
    /\ UNCHANGED <<pageVars, timerVars, viewVars, schedVars, collabVars, obsVars,
                   feedbackVars, cameraVars, beatVars, appVars, sessionVars>>

\* Start Calibration, rendered while !isComplete, disabled={isCalibrating}:
\* handleCalibrate: setIsCalibrating(true); setTimeout(..., 2000)
HandleCalibrate ==
    /\ calibrationPage # Null
    /\ ~isComplete
    /\ ~isCalibrating
    /\ isCalibrating' = TRUE
    /\ calibrationTimers' = [calibrationTimers EXCEPT ![calibrationPage] = @ + 1]
    /\ UNCHANGED <<isComplete, checklist, calibrationPage, calibrationVisits,
                   onCompleteCalls>>
    /\ UNCHANGED <<pageVars, timerVars, viewVars, schedVars, collabVars, obsVars,
                   feedbackVars, cameraVars, beatVars, appVars, sessionVars>>

\* The 2000 ms timer of a page instance expires: every checklist item
\* completed; setIsCalibrating(false); setIsComplete(true)
CalibrationTimerFires ==
    /\ \E page \in DOMAIN calibrationTimers :
          /\ calibrationTimers[page] > 0
          /\ calibrationTimers' = [calibrationTimers EXCEPT ![page] = @ - 1]
          /\ IF page = calibrationPage
               THEN /\ checklist' = [item \in ChecklistItems |-> TRUE]
                    /\ isCalibrating' = FALSE
                    /\ isComplete' = TRUE
               ELSE UNCHANGED <<checklist, isCalibrating, isComplete>>
    /\ UNCHANGED <<calibrationPage, calibrationVisits, onCompleteCalls>>
    /\ UNCHANGED <<pageVars, timerVars, viewVars, schedVars, collabVars, obsVars,
                   feedbackVars, cameraVars, beatVars, appVars, sessionVars>>

\* Begin Practice, rendered while isComplete: onClick={onComplete}
BeginPractice ==
    /\ calibrationPage # Null
    /\ isComplete
    /\ onCompleteCalls < MaxCompleteCalls
    /\ onCompleteCalls' = onCompleteCalls + 1
    /\ UNCHANGED <<isCalibrating, isComplete, checklist, calibrationTimers,
                   calibrationPage, calibrationVisits>>
    /\ UNCHANGED <<pageVars, timerVars, viewVars, schedVars, collabVars, obsVars,
                   feedbackVars, cameraVars, beatVars, appVars, sessionVars>>

\* The parent takes the page out of the tree (after onBack or onComplete)
CalibrationLeave ==
    /\ calibrationPage # Null
    /\ calibrationPage' = Null
    /\ UNCHANGED <<isCalibrating, isComplete, checklist, calibrationTimers,
                   calibrationVisits, onCompleteCalls>>
    /\ UNCHANGED <<pageVars, timerVars, viewVars, schedVars, collabVars, obsVars,
                   feedbackVars, cameraVars, beatVars, appVars, sessionVars>>

\* The parent renders the page again: a new instance with its initial state
CalibrationEnter ==
    /\ calibrationPage = Null
    /\ calibrationVisits < MaxCalibrationVisits
    /\ calibrationVisits' = calibrationVisits + 1
    /\ calibrationPage' = calibrationVisits + 1
    /\ calibrationTimers' =
          [page \in 1..(calibrationVisits + 1) |->
              IF page <= calibrationVisits THEN calibrationTimers[page] ELSE 0]
    /\ isCalibrating' = FALSE
    /\ isComplete' = FALSE
    /\ checklist' = [item \in ChecklistItems |-> FALSE]
    /\ UNCHANGED onCompleteCalls
    /\ UNCHANGED <<pageVars, timerVars, viewVars, schedVars, collabVars, obsVars,
                   feedbackVars, cameraVars, beatVars, appVars, sessionVars>>

NextCalibration ==
    \/ HandleCalibrate
    \/ CalibrationTimerFires
    \/ BeginPractice
    \/ CalibrationLeave
    \/ CalibrationEnter

---------------------------------------------------------------------------
(* The practice page                                                       *)

InitPage ==
    /\ countdown = Null
    /\ hasStarted = FALSE
    /\ isPlaying = FALSE
    /\ currentFeedback = NullFeedback
    /\ overallAccuracy = InitialAccuracy
    /\ videoCurrentTime = 0
    /\ countdownTimer = Null
    /\ startTimers = 0
    /\ mounted = TRUE
    /\ startOverlay = "shown"
    /\ isCapturing = FALSE
    /\ onSnapshotPending = {}
    /\ ended = FALSE
    /\ inflight = {}
    /\ submitted = 0
    /\ failed = 0
    /\ lastProcessed = NullFeedback
    /\ consoleErrors = 0
    /\ startCalls = 0
    /\ startAutoCaptureCalls = 0
    /\ earlySnapshots = 0

\* LiveFeedback: useState([]), useState(0); no timer pending while !isPlaying
InitFeedback ==
    /\ feedbackMessages = <<>>
    /\ messageId = 0
    /\ intervalLeft = Null
    /\ expiryTimers = {}
    /\ feedbackMounted = TRUE

\* The beat clock of a routine of tempo b and n beats, at video time 0
InitRoutine(b, n) ==
    /\ bpm = b
    /\ totalBeats = n
    /\ elapsedTime = 0
    /\ beatState = BeatClock(0, b, n)

\* App: useState('checking...')
InitApp ==
    /\ apiStatus = "checking..."
    /\ checksPending = 0
    /\ checkedStatus = NoStatus
    /\ apiPending = {}
    /\ apiResult = [status |-> NoStatus, delivered |-> FALSE]

\* useDanceSession: useState(null), useState(false)
InitSession ==
    /\ sessionId = NullSession
    /\ isSessionActive = FALSE
    /\ sessionPending = {}
    /\ sessionSeq = 0
    /\ lastEndSettled = 0
    /\ sessionFailed = [kind \in {"start", "end"} |-> 0]
    /\ sessionErrors = 0
    /\ sessionRejected = 0

\* CalibrationPage: useState(false), useState(false), useState(checklistItems)
InitCalibration ==
    /\ isCalibrating = FALSE
    /\ isComplete = FALSE
    /\ checklist = [item \in ChecklistItems |-> FALSE]
    /\ calibrationTimers = [page \in 1..1 |-> 0]
    /\ calibrationPage = 1
    /\ calibrationVisits = 1
    /\ onCompleteCalls = 0

Init ==
    /\ InitPage
    /\ InitFeedback
    /\ InitRoutine(RoutineBpm, RoutineBeats)
    /\ InitApp
    /\ InitSession
    /\ InitCalibration

Next ==
    \/ HandleStart
    \/ CountdownTimerFires
    \/ StartDelayFires
    \/ EffectRerun
    \/ OverlayExitComplete
    \/ PlayPause
    \/ Restart
    \/ TimeUpdate
    \/ SnapshotBeforeStart
    \/ SnapshotTick
    \/ SnapshotResponse
    \/ OnReview
    \/ Unmount

Spec == Init /\ [][Next]_vars

---------------------------------------------------------------------------
(* LiveFeedback: the message list, its insertion interval and the          *)
(* per-message removal timers.  The component reads only the isPlaying     *)
(* prop; time is counted in seconds, and a timer that is due runs before   *)
(* time moves on (timers run in the order they fall due).                  *)
(* The page reaches LiveFeedback through the isPlaying prop alone, and     *)
(* reads nothing back from it, so the component is specified on its own    *)
(* under a prop that may change at any moment (FeedbackPlayChange): every  *)
(* behaviour the page can drive is among the behaviours of SpecFeedback.   *)

\* setInterval(..., 4000)
IntervalMs == 4000
\* Variant: a display duration longer than the insertion interval
ExpiryMsLong == IntervalMs + 1000

\* setTimeout(..., 3000)
ExpiryMs == 3000
\* the messages array of the interval callback
MessageCount == 4

IntervalSeconds == IntervalMs \div 1000
ExpirySeconds == ExpiryMs \div 1000

\* Variant: the effect without its early return for !isPlaying
FeedbackEffectAlways(playing, id) ==
    IF id < MaxMessageId THEN IntervalSeconds ELSE Null

\* The effect [isPlaying, messageId]: cleanup clears the interval; the body
\* returns early unless isPlaying, else sets a new interval
FeedbackEffect(playing, id) ==
    IF playing /\ id < MaxMessageId THEN IntervalSeconds ELSE Null

\* Variant: the callback keeps the messageId of the first render (the
\* effect not depending on messageId)
NewIdStale(id) == 1

\* const newId = messageId + 1
NewId(id) == id + 1

\* Variant: the filter keeps the message it should drop (=== for !==)
RemoveMessageKeeps(msgs, id) == SelectSeq(msgs, LAMBDA m : m.id = id)

\* prev.filter((msg) => msg.id !== newId)
RemoveMessage(msgs, id) == SelectSeq(msgs, LAMBDA m : m.id # id)

\* The isPlaying prop changes: the effect runs again
FeedbackPlayChange ==
    /\ UNCHANGED restVars
    /\ feedbackMounted
    /\ isPlaying' = ~isPlaying
    /\ intervalLeft' = FeedbackEffect(isPlaying', messageId)
    /\ UNCHANGED <<feedbackMessages, messageId, expiryTimers, feedbackMounted>>
    /\ UNCHANGED <<countdown, hasStarted, currentFeedback, overallAccuracy,
                   videoCurrentTime, timerVars, viewVars, schedVars, collabVars,
                   obsVars>>

\* The interval callback: newId = messageId + 1; setMessageId(newId);
\* append {id: newId, ...randomMessage}; setTimeout(remove newId, 3000).
\* messageId changed, so the effect runs again
FeedbackIntervalFires ==
    /\ UNCHANGED restVars
    /\ intervalLeft = 0
    /\ \E m \in 1..MessageCount :
          feedbackMessages' =
              Append(feedbackMessages, [id |-> NewId(messageId), message |-> m])
    /\ messageId' = NewId(messageId)
    /\ expiryTimers' =
           expiryTimers \cup {[id |-> NewId(messageId), left |-> ExpirySeconds]}
    /\ intervalLeft' = FeedbackEffect(isPlaying, messageId')
    /\ UNCHANGED <<feedbackMounted, pageVars, timerVars, viewVars, schedVars,
                   collabVars, obsVars>>

\* A removal timer expires
FeedbackExpiryFires ==
    /\ UNCHANGED restVars
    /\ \E t \in expiryTimers :
          /\ t.left = 0
          /\ expiryTimers' = expiryTimers \ {t}
          /\ feedbackMessages' =
                 IF feedbackMounted THEN RemoveMessage(feedbackMessages, t.id)
                 ELSE feedbackMessages
    /\ UNCHANGED <<messageId, intervalLeft, feedbackMounted, pageVars, timerVars,
                   viewVars, schedVars, collabVars, obsVars>>

\* One second passes with no timer due
FeedbackSecond ==
    /\ UNCHANGED restVars
    /\ intervalLeft # 0
    /\ \A t \in expiryTimers : t.left > 0
    /\ intervalLeft # Null \/ expiryTimers # {}
    /\ intervalLeft' = IF intervalLeft = Null THEN Null ELSE intervalLeft - 1
    /\ expiryTimers' = {[id |-> t.id, left |-> t.left - 1] : t \in expiryTimers}
    /\ UNCHANGED <<feedbackMessages, messageId, feedbackMounted, pageVars,
                   timerVars, viewVars, schedVars, collabVars, obsVars>>

\* LiveFeedback leaves the tree: the effect's cleanup clears the interval
FeedbackUnmount ==
    /\ UNCHANGED restVars
    /\ feedbackMounted
    /\ feedbackMounted' = FALSE
    /\ intervalLeft' = Null
    /\ UNCHANGED <<feedbackMessages, messageId, expiryTimers, pageVars, timerVars,
                   viewVars, schedVars, collabVars, obsVars>>

NextFeedback ==
    \/ FeedbackPlayChange
    \/ FeedbackIntervalFires
    \/ FeedbackExpiryFires
    \/ FeedbackSecond
    \/ FeedbackUnmount

SpecFeedback == Init /\ [][NextFeedback]_vars

\* LiveFeedback while it stays in the tree: a timer that is due runs, and
\* time passes
NextFeedbackLive ==
    \/ FeedbackPlayChange
    \/ FeedbackIntervalFires
    \/ FeedbackExpiryFires
    \/ FeedbackSecond

SpecFeedbackLive ==
    /\ Init
    /\ [][NextFeedbackLive]_vars
    /\ WF_vars(FeedbackExpiryFires)
    /\ WF_vars(FeedbackSecond)

\* the message with this id is in the displayed list
Displayed(id) ==
    \E i \in 1..Len(feedbackMessages) : feedbackMessages[i].id = id

\* The list holds at most one message
FeedbackAtMostOne == Len(feedbackMessages) <= 1

---------------------------------------------------------------------------
(* The beat clock on its own, for every configured routine                 *)

InitBeat ==
    /\ InitPage
    /\ InitFeedback
    /\ InitApp
    /\ InitSession
    /\ InitCalibration
    /\ \E b \in Bpms, n \in BeatTotals : InitRoutine(b, n)

NextBeat == BeatTimeUpdate

SpecBeat == InitBeat /\ [][NextBeat]_vars

---------------------------------------------------------------------------
(* App and the DanceAPI client on their own                                *)

SpecApp == Init /\ [][NextApp]_vars

---------------------------------------------------------------------------
(* useDanceSession on its own                                              *)

SpecSession == Init /\ [][NextSession]_vars

---------------------------------------------------------------------------
(* CalibrationPage on its own                                              *)

SpecCalibration == Init /\ [][NextCalibration]_vars

---------------------------------------------------------------------------
(* The practice page with no user input after the first start: timers,     *)
(* the video, the scheduler and the collaborator only.  Pending timers     *)
(* eventually expire.                                                      *)

StartFromIdle == HandleStart /\ countdown = Null /\ ~hasStarted

NextAuto ==
    \/ StartFromIdle
    \/ CountdownTimerFires
    \/ StartDelayFires
    \/ EffectRerun
    \/ OverlayExitComplete
    \/ TimeUpdate
    \/ SnapshotTick
    \/ SnapshotResponse

SpecLive ==
    /\ Init
    /\ [][NextAuto]_vars
    /\ WF_vars(CountdownTimerFires)
    /\ WF_vars(StartDelayFires)
    /\ WF_vars(OverlayExitComplete)

---------------------------------------------------------------------------
(* Properties                                                              *)

C2_StaleAnswerDiscarded ==
    [][(mounted /\ ~isCapturing /\ inflight' # inflight /\ inflight' \subseteq inflight)
          => UNCHANGED <<overallAccuracy, currentFeedback, consoleErrors>>]_vars

\* C3: a start call while the session is in Countdown or Running changes
\* neither the countdown, nor the pending timers, nor hasStarted/isPlaying.
C3_StartIsNoOp ==
    [][(startCalls' # startCalls /\ (countdown # Null \/ hasStarted))
          => UNCHANGED <<countdown, countdownTimer, startTimers, hasStarted,
                         isPlaying>>]_vars

\* Start was called twice in quick succession: one Countdown(3), one timer
C3_Witness ==
    /\ startCalls = 2
    /\ countdown = StartCount
    /\ countdownTimer = StartCount
    /\ startTimers = 0
    /\ ~hasStarted

\* C4: the countdown goes null -> 3 -> 2 -> 1 -> 0 -> null, one step per
\* timer expiry, and hasStarted becomes true only in the step that clears
\* countdown 0, which also sets isPlaying.
C4_CountdownOrder ==
    [][/\ countdown' # countdown =>
            \/ countdown = Null /\ ~hasStarted /\ countdown' = StartCount
            \/ countdown \in 1..StartCount /\ countdown' = countdown - 1
            \/ countdown = 0 /\ countdown' = Null /\ hasStarted' /\ isPlaying'
       /\ (hasStarted' /\ ~hasStarted) =>
            countdown = 0 /\ countdown' = Null /\ isPlaying'
      ]_vars

\* Running was entered after one start call
C4_Witness == hasStarted /\ isPlaying /\ countdown = Null /\ startCalls = 1

\* C5: after start from Idle, with no further user input, the session
\* eventually is Running and startAutoCapture has been invoked.
C5_EventuallyRunning ==
    (countdown = StartCount) ~>
        (hasStarted /\ isPlaying /\ countdown = Null /\ isCapturing
            /\ startAutoCaptureCalls > 0)

\* Running with the scheduler signalled
C5_Witness ==
    hasStarted /\ isPlaying /\ countdown = Null /\ startAutoCaptureCalls = 1

\* C6: after the session has ended, auto-capture stays disabled and no
\* further snapshot request is issued.
C6_EndStopsScheduler ==
    [][ended => (~isCapturing' /\ submitted' = submitted)]_vars

\* C7: overallAccuracy is round(combined_score * 100) of the result
\* processed last (the one currentFeedback holds), and the initial value
\* until a result has been processed.
C7_LastValueWins ==
    /\ (currentFeedback.present /\ currentFeedback.comparison)
          => overallAccuracy = Round100(currentFeedback.combined_score)
    /\ ~currentFeedback.present => overallAccuracy = InitialAccuracy

\* The third result processed scored 0.495 and the accuracy shown is 50
C7_Witness ==
    /\ submitted = 3 /\ inflight = {} /\ failed = 0
    /\ currentFeedback.combined_score = 495
    /\ overallAccuracy = 50

\* C8: a failed snapshot submission leaves overallAccuracy, currentFeedback
\* (hence the current tip), isPlaying, hasStarted and countdown unchanged.
C8_FailureLeavesState ==
    [][failed' # failed
          => UNCHANGED <<overallAccuracy, currentFeedback, isPlaying, hasStarted,
                         countdown>>]_vars

\* A failure after a result was applied, playback on
C8_Witness ==
    failed >= 1 /\ currentFeedback.present /\ overallAccuracy = 50 /\ isPlaying

C11_BeatStateInRange ==
    (bpm > 0 /\ totalBeats > 0) =>
        /\ ~beatState.error
        /\ beatState.currentBeat \in 0..(totalBeats - 1)
        /\ beatState.beatProgress \in 0..(QuartersPerMinute - 1)

\* C11 witness: the video time is beyond the track and the beat is clamped
C11_Witness ==
    /\ bpm > 0 /\ totalBeats > 1
    /\ ElapsedBeats(elapsedTime, bpm) > totalBeats * QuartersPerMinute
    /\ beatState.currentBeat = totalBeats - 1
    /\ beatState.beatProgress > 0

\* C12: while floor(elapsedBeats) < totalBeats, currentBeat is the floor of
\* elapsedBeats = elapsedTime * bpm / 60 and beatProgress is the remainder;
\* bpm = 120, totalBeats = 32, 8.0 s give currentBeat 16, beatProgress 0
C12_BeatIsFloor ==
    /\ (/\ bpm > 0 /\ totalBeats > 0
        /\ ElapsedBeats(elapsedTime, bpm) < totalBeats * QuartersPerMinute)
       => /\ beatState.currentBeat * QuartersPerMinute
                <= ElapsedBeats(elapsedTime, bpm)
          /\ ElapsedBeats(elapsedTime, bpm)
                < (beatState.currentBeat + 1) * QuartersPerMinute
          /\ beatState.currentBeat * QuartersPerMinute + beatState.beatProgress
                = ElapsedBeats(elapsedTime, bpm)
    /\ (bpm = 120 /\ totalBeats = 32 /\ elapsedTime = 32)
       => (beatState.currentBeat = 16 /\ beatState.beatProgress = 0)

\* C12 witness: the scenario bpm = 120, totalBeats = 32, 8.0 s
C12_Witness ==
    /\ bpm = 120 /\ totalBeats = 32 /\ elapsedTime = 32
    /\ beatState.currentBeat = 16

\* C13: with bpm <= 0 or totalBeats <= 0 the beat computation reports a
\* configuration error and yields no beat state
C13_InvalidConfigReported ==
    (bpm <= 0 \/ totalBeats <= 0) => beatState = ConfigurationError

\* C13 witness: a routine whose segments sum to zero beats, video running
C13_Witness ==
    /\ totalBeats = 0 /\ bpm > 0 /\ elapsedTime > 0
    /\ beatState.error

\* C14: a response with a non-success HTTP status takes the error path: a
\* DanceAPI request delivers a body only for a success status, and the
\* connection status reads Connected only after a check answered with a
\* success status
C14_NonSuccessIsError ==
    /\ apiResult.delivered => apiResult.status \in 200..299
    /\ (apiStatus \notin {"checking...", "Backend not running"})
          => checkedStatus \in 200..299

\* C15: a failed health check (no response, a non-success status or an
\* unreadable body) sets the status to 'Backend not running', the status
\* leaves that value only for a check that completed successfully, and it
\* never returns to 'checking...'
C15_FailureShownUntilSuccess ==
    [][/\ (checkedStatus' \notin 200..299 /\ checksPending' < checksPending)
           => apiStatus' = "Backend not running"
       /\ (apiStatus = "Backend not running" /\ apiStatus' # apiStatus)
           => checkedStatus' \in 200..299
       /\ apiStatus # "checking..." => apiStatus' # "checking..."]_vars

\* C16: at most one countdown or start-delay timer is pending at any moment
C16_AtMostOneTimer ==
    (IF countdownTimer # Null THEN 1 ELSE 0) + startTimers <= 1

\* C17: once the page or LiveFeedback has left the tree none of its timers
\* is pending, and no startAutoCapture call happens after the page left
C17_TeardownCancelsTimers ==
    /\ [](~mounted => (countdownTimer = Null /\ startTimers = 0))
    /\ [](~feedbackMounted => (intervalLeft = Null /\ expiryTimers = {}))
    /\ [][~mounted => startAutoCaptureCalls' = startAutoCaptureCalls]_vars

\* C18: every inserted message is appended at the tail with an id greater
\* than messageId, the greatest id given out before, so ids are never
\* reused and the list is ordered by strictly increasing id
C18_IdsIncrease ==
    /\ [](\A i \in 1..Len(feedbackMessages) :
            /\ feedbackMessages[i].id <= messageId
            /\ \A j \in 1..Len(feedbackMessages) :
                  i < j => feedbackMessages[i].id < feedbackMessages[j].id)
    /\ [][/\ messageId' >= messageId
          /\ Len(feedbackMessages') > Len(feedbackMessages) =>
                /\ feedbackMessages' =
                       Append(feedbackMessages,
                              feedbackMessages'[Len(feedbackMessages')])
                /\ feedbackMessages'[Len(feedbackMessages')].id > messageId
                /\ feedbackMessages'[Len(feedbackMessages')].id = messageId']_vars

\* C18 witness: a second message has been inserted
C18_Witness ==
    /\ Len(feedbackMessages) = 1
    /\ feedbackMessages[1].id = 2
    /\ messageId = 2

\* C19: every displayed message has its own removal timer pending and is
\* eventually removed; the list shrinks only when a removal timer has run
\* its full duration, and then loses exactly that timer's message, the
\* others staying in order
C19_ExpiryRemovesOwnMessage ==
    /\ \A id \in 1..MaxMessageId : Displayed(id) ~> ~Displayed(id)
    /\ [](\A i \in 1..Len(feedbackMessages) :
            \E t \in expiryTimers : t.id = feedbackMessages[i].id)
    /\ [][feedbackMessages' # feedbackMessages
             /\ Len(feedbackMessages') <= Len(feedbackMessages)
          => \E t \in expiryTimers :
                /\ t.left = 0
                /\ Displayed(t.id)
                /\ expiryTimers' = expiryTimers \ {t}
                /\ feedbackMessages' =
                       SelectSeq(feedbackMessages, LAMBDA m : m.id # t.id)]_vars

\* C19 witness: the first message was inserted and its timer has removed it
C19_Witness ==
    /\ messageId = 1
    /\ feedbackMessages = <<>>
    /\ expiryTimers = {}

\* C20: while hasStarted is false no snapshot has been forwarded to the
\* collaborator and overallAccuracy and currentFeedback hold their initial
\* values, whatever onSnapshot calls the camera view makes
C20_NothingBeforeStart ==
    ~hasStarted =>
        /\ submitted = 0
        /\ inflight = {}
        /\ overallAccuracy = InitialAccuracy
        /\ currentFeedback = NullFeedback

\* C20 witness: onSnapshot was called during the countdown, nothing sent
C20_Witness ==
    /\ ~hasStarted
    /\ countdown = 0
    /\ earlySnapshots > 0
    /\ submitted = 0

\* C21: a startSession response that arrives after the response of an
\* endSession issued later changes neither the session id nor the active
\* flag
C21_StaleStartIgnored ==
    [][\A call \in sessionPending :
          (/\ call \notin sessionPending'
           /\ call.kind = "start"
           /\ call.seq < lastEndSettled)
          => UNCHANGED <<sessionId, isSessionActive>>]_vars

\* C22: a failed session call leaves sessionId and isSessionActive as they
\* were, and every failure is logged once and rethrown once
C22_FailedCallLeavesSession ==
    [][/\ (sessionFailed' # sessionFailed)
            => UNCHANGED <<sessionId, isSessionActive>>
       /\ \A kind \in {"start", "end"} : sessionFailed'[kind] >= sessionFailed[kind]
       /\ sessionErrors' - sessionErrors
            = (sessionFailed'["start"] + sessionFailed'["end"])
              - (sessionFailed["start"] + sessionFailed["end"])
       /\ sessionRejected' - sessionRejected = sessionErrors' - sessionErrors]_vars

\* C22 witness: endSession failed and the session is still active
C22_Witness ==
    /\ sessionFailed["end"] = 1 /\ sessionFailed["start"] = 0
    /\ isSessionActive /\ sessionId # NullSession
    /\ lastEndSettled = 0
    /\ sessionErrors = 1 /\ sessionRejected = 1

\* C24: isSessionActive is true exactly when sessionId is not null
C24_ActiveIffSessionId ==
    isSessionActive <=> (sessionId # NullSession)

\* C24 witness: a session started again after an earlier one was ended
C24_Witness ==
    /\ isSessionActive
    /\ lastEndSettled > 0
    /\ sessionPending = {}

\* C30: onComplete is called only while isComplete; isComplete implies all
\* four checklist items completed and not calibrating; a page instance has
\* at most one calibration timer pending; isComplete of an instance never
\* returns to false
C30_CalibrationComplete ==
    /\ [](isComplete => (~isCalibrating /\ \A item \in ChecklistItems : checklist[item]))
    /\ [](\A page \in DOMAIN calibrationTimers : calibrationTimers[page] <= 1)
    /\ [][/\ (onCompleteCalls' # onCompleteCalls) => isComplete
          /\ (isComplete /\ calibrationPage' = calibrationPage) => isComplete']_vars

\* C30 witness: calibration finished and Begin Practice was clicked
C30_Witness ==
    /\ isComplete
    /\ onCompleteCalls = 1
    /\ calibrationPage # Null
    /\ calibrationTimers[calibrationPage] = 0

\* C23: overallAccuracy is an integer in [0, 100] in every state of the
\* practice page, for results whose combined_score lies in [0, 1]
C23_AccuracyInRange == overallAccuracy \in 0..100

\* C23 witness: a result with combined_score 1.0 was applied
C23_Witness ==
    /\ overallAccuracy = 100
    /\ currentFeedback.comparison
    /\ currentFeedback.combined_score = 1000

\* C25: the reference video never plays before the session has started
C25_NoPlaybackBeforeStart == ~hasStarted => ~isPlaying

\* C26: the displayed message list holds at most one message
C26_AtMostOneMessage == Len(feedbackMessages) <= 1

\* C26 witness: the third message is displayed while playback is paused
C26_Witness ==
    /\ Len(feedbackMessages) = 1
    /\ messageId = 3
    /\ ~isPlaying

\* C27: no message is inserted while isPlaying is false; pausing cancels
\* the insertion interval and leaves the removal timers pending, and a
\* message displayed while paused is still removed by its timer
C27_PauseStopsInsertionOnly ==
    /\ [](~isPlaying => intervalLeft = Null)
    /\ [][/\ (messageId' # messageId
               \/ Len(feedbackMessages') > Len(feedbackMessages)) => isPlaying
          /\ (isPlaying /\ ~isPlaying')
               => (expiryTimers' = expiryTimers /\ intervalLeft' = Null
                   /\ feedbackMessages' = feedbackMessages)]_vars
    /\ \A id \in 1..MaxMessageId :
          (Displayed(id) /\ ~isPlaying) ~> ~Displayed(id)

\* C27 witness: paused with a message displayed whose timer is now due
C27_Witness ==
    /\ ~isPlaying
    /\ Len(feedbackMessages) = 1
    /\ \E t \in expiryTimers : t.left = 0 /\ t.id = feedbackMessages[1].id

\* C28: a processed result without comparison_result leaves overallAccuracy
\* as it was and still becomes currentFeedback, so on the mounted page the
\* tip is shown exactly when the result processed last carries a non-empty
\* live_feedback text
C28_NullComparisonKeepsAccuracy ==
    /\ [](mounted => currentFeedback = lastProcessed)
    /\ [](mounted => (CurrentTipShown
                        <=> lastProcessed.live_feedback \notin {NullText, ""}))
    /\ [][(/\ Cardinality(inflight') < Cardinality(inflight)
           /\ failed' = failed
           /\ ~lastProcessed'.comparison)
          => overallAccuracy' = overallAccuracy]_vars

\* C28 witness: a result without comparison_result but with a tip followed
\* a scored one: the accuracy kept the earlier score, the tip is shown
C28_Witness ==
    /\ mounted
    /\ lastProcessed.present /\ ~lastProcessed.comparison
    /\ lastProcessed.live_feedback = "Keep your arms higher"
    /\ currentFeedback = lastProcessed
    /\ overallAccuracy = 50
    /\ CurrentTipShown

\* C29: a play/pause step negates isPlaying and a restart step sets the
\* video time to 0 and isPlaying to true; both leave hasStarted, countdown,
\* overallAccuracy, currentFeedback and autoSnapshot as they were (play/pause
\* the video time too), so a second play/pause gives the first state back
C29_PlaybackControlsFrame ==
    [][/\ PlayPause =>
            /\ isPlaying' = ~isPlaying
            /\ UNCHANGED <<hasStarted, countdown, overallAccuracy,
                           currentFeedback, videoCurrentTime>>
            /\ autoSnapshot' = autoSnapshot
       /\ Restart =>
            /\ videoCurrentTime' = 0
            /\ isPlaying' = TRUE
            /\ UNCHANGED <<hasStarted, countdown, overallAccuracy,
                           currentFeedback>>
            /\ autoSnapshot' = autoSnapshot]_vars

\* C29 witness: the started session was paused: capture is still enabled
\* and the feedback and accuracy are still there
C29_Witness ==
    /\ mounted /\ hasStarted /\ ~isPlaying
    /\ countdown = Null
    /\ autoSnapshot
    /\ currentFeedback.present
    /\ overallAccuracy = 50

==========================================================================
